---- MODULE Spec2Model ----
(***************************************************************************)
(* PII redaction pipeline of pii_redact_v3.py (and its v2 predecessor      *)
(* ner/pii_redact.py): normalisation, title-name detection, confidence     *)
(* filtering, entity masking, regex masking and the per-line loop of main. *)
(*                                                                         *)
(* A text is a sequence of characters; a character is a one-character      *)
(* string, or a name (TAB, U2019, ...) for a character outside ASCII.      *)
(* Span offsets are Python's: 0-based, [start, end).                       *)
(***************************************************************************)
EXTENDS Integers, Sequences, FiniteSets, TLC

VARIABLES
  pc,               \* position of main (or of the function under study)
  input_exists,     \* infile.exists()
  infile,           \* the lines of the input file, as they are on disk
  fin,              \* the lines of the input file not read yet
  min_score, mask_org, mask_zip, filter_streets,   \* args
  nlp_loaded,       \* whether pipeline("ner", ...) was called
  rep,              \* entities_report.jsonl: whether it exists, the records written
  out,              \* redacted_output.txt: whether it exists, the lines written
  line,             \* the input line being processed, with the spans nlp returns for it
  s,                \* the current line, canonical after preprocess_text
  ents,             \* nlp(s), then detect_titles_and_names(s, ents)
  ents_f,           \* clean_and_filter_ents(ents, min_score)
  text,             \* mask_ner_multi: the working text
  todo,             \* mask_ner_multi: the sorted spans not substituted yet
  counts,           \* mask_ner_multi: counts
  filtered_counts,  \* mask_ner_multi: filtered_counts
  masked,           \* the masked line
  rx_counts,        \* the counts mask_regex returned for the line
  totals,           \* run-wide masked counts
  filtered_totals,  \* run-wide filtered counts
  redacted_lines    \* the masked lines so far

vars == << pc, input_exists, infile, fin, min_score, mask_org, mask_zip, filter_streets,
           nlp_loaded, rep, out, line, s, ents, ents_f, text, todo, counts,
           filtered_counts, masked, rx_counts, totals, filtered_totals,
           redacted_lines >>

----------------------------------------------------------------------------
(* Characters and character classes of Python's re / str.                  *)

UpperSeq ==
  << "A", "B", "C", "D", "E", "F", "G", "H", "I", "J", "K", "L", "M",
     "N", "O", "P", "Q", "R", "S", "T", "U", "V", "W", "X", "Y", "Z" >>

LowerSeq ==
  << "a", "b", "c", "d", "e", "f", "g", "h", "i", "j", "k", "l", "m",
     "n", "o", "p", "q", "r", "s", "t", "u", "v", "w", "x", "y", "z" >>

Range(f) == { f[i] : i \in DOMAIN f }

Uppers == Range(UpperSeq)

Letters == Range(UpperSeq) \cup Range(LowerSeq)

Digits == { "0", "1", "2", "3", "4", "5", "6", "7", "8", "9" }

\* \s and the separators of str.split() / str.strip()
Spaces == { " ", "TAB" }

\* \w: letters (U00E9 is e-acute), digits, underscore
WordChars == Letters \cup Digits \cup { "_", "U00E9" }

IsUpper(c) == c \in Uppers

IsAlpha(c) == c \in Letters

IsDigit(c) == c \in Digits

IsSpace(c) == c \in Spaces

IsWord(c) == c \in WordChars

\* str.lower() on one character
LowerMap ==
  [ c \in Uppers |-> LowerSeq[CHOOSE i \in DOMAIN UpperSeq : UpperSeq[i] = c] ]

LowerChar(c) == IF c \in Uppers THEN LowerMap[c] ELSE c

Lower(t) == [ i \in DOMAIN t |-> LowerChar(t[i]) ]

\* t[a:b] for 0 <= a, 0 <= b
Slice(t, a, b) ==
  LET lo == IF a > Len(t) THEN Len(t) ELSE a
      hi == IF b > Len(t) THEN Len(t) ELSE b
  IN  IF lo >= hi THEN << >> ELSE SubSeq(t, lo + 1, hi)

\* the character at 1-based position i, "" outside the text
At(t, i) == IF i >= 1 /\ i <= Len(t) THEN t[i] ELSE ""

\* \b between positions i-1 and i (1-based): exactly one side is a word character
Boundary(t, i) == IsWord(At(t, i - 1)) # IsWord(At(t, i))

Min(S) == CHOOSE x \in S : \A y \in S : x <= y

Max(S) == CHOOSE x \in S : \A y \in S : y <= x

\* the last position of the maximal run of characters of class Cls starting
\* at i, or i - 1 when t[i] is not in the class
RunEnd(t, i, Cls) ==
  IF i < 1 \/ i > Len(t) THEN i - 1
  ELSE IF t[i] \notin Cls THEN i - 1
  ELSE LET stops == { k \in i..Len(t) : t[k] \notin Cls }
       IN  IF stops = {} THEN Len(t) ELSE Min(stops) - 1

\* the same for the characters outside Cls
RunEndNot(t, i, Cls) ==
  IF i < 1 \/ i > Len(t) THEN i - 1
  ELSE IF t[i] \in Cls THEN i - 1
  ELSE LET stops == { k \in i..Len(t) : t[k] \in Cls }
       IN  IF stops = {} THEN Len(t) ELSE Min(stops) - 1

AllIn(t, a, b, Cls) == b <= Len(t) /\ \A k \in a..b : t[k] \in Cls

----------------------------------------------------------------------------
(* Redaction tokens and vocabularies.                                      *)

COMMON_STREET_WORDS ==
  {
    <<"a", "v", "e">>, <<"a", "v", "e", ".">>, <<"a", "v", "e", "n", "u", "e">>,
    <<"b", "l", "v", "d">>, <<"b", "l", "v", "d", ".">>, <<"b", "o", "u", "l", "e", "v", "a", "r", "d">>,
    <<"c", "i", "r">>, <<"c", "i", "r", ".">>, <<"c", "i", "r", "c", "l", "e">>,
    <<"c", "o", "u", "r", "t">>, <<"c", "t">>, <<"c", "t", ".">>,
    <<"d", "r">>, <<"d", "r", ".">>, <<"d", "r", "i", "v", "e">>,
    <<"h", "i", "g", "h", "w", "a", "y">>, <<"h", "w", "y">>, <<"h", "w", "y", ".">>,
    <<"l", "a", "n", "e">>, <<"l", "n">>, <<"l", "n", ".">>,
    <<"p", "a", "r", "k", "w", "a", "y">>, <<"p", "k", "w", "y">>, <<"p", "k", "w", "y", ".">>,
    <<"p", "l">>, <<"p", "l", ".">>, <<"p", "l", "a", "c", "e">>,
    <<"r", "d">>, <<"r", "d", ".">>, <<"r", "o", "a", "d">>,
    <<"s", "t">>, <<"s", "t", ".">>, <<"s", "t", "r", "e", "e", "t">>,
    <<"w", "a", "y">> }

COMMON_TITLES ==
  {
    <<"c", "a", "p", "t">>, <<"c", "a", "p", "t", ".">>, <<"c", "a", "p", "t", "a", "i", "n">>,
    <<"d", "o", "c", "t", "o", "r">>, <<"d", "r">>, <<"d", "r", ".">>,
    <<"g", "e", "n">>, <<"g", "e", "n", ".">>, <<"g", "e", "n", "e", "r", "a", "l">>,
    <<"h", "o", "n">>, <<"h", "o", "n", ".">>, <<"h", "o", "n", "o", "r", "a", "b", "l", "e">>,
    <<"l", "i", "e", "u", "t", "e", "n", "a", "n", "t">>, <<"l", "t">>, <<"l", "t", ".">>,
    <<"m", "i", "s", "s">>, <<"m", "i", "s", "s", "u", "s">>, <<"m", "i", "s", "t", "e", "r">>,
    <<"m", "r">>, <<"m", "r", ".">>, <<"m", "r", "s">>,
    <<"m", "r", "s", ".">>, <<"m", "s">>, <<"m", "s", ".">>,
    <<"p", "r", "o", "f">>, <<"p", "r", "o", "f", ".">>, <<"p", "r", "o", "f", "e", "s", "s", "o", "r">>,
    <<"r", "e", "p">>, <<"r", "e", "p", ".">>, <<"r", "e", "p", "r", "e", "s", "e", "n", "t", "a", "t", "i", "v", "e">>,
    <<"r", "e", "v">>, <<"r", "e", "v", ".">>, <<"r", "e", "v", "e", "r", "e", "n", "d">>,
    <<"s", "e", "n">>, <<"s", "e", "n", ".">>, <<"s", "e", "n", "a", "t", "o", "r">>,
    <<"s", "e", "r", "g", "e", "a", "n", "t">>, <<"s", "g", "t">>, <<"s", "g", "t", ".">> }
TokEMAIL ==
  <<"[", "E", "M", "A", "I", "L", "_", "R", "E", "D", "A", "C", "T", "E", "D", "]">>
TokSSN ==
  <<"[", "S", "S", "N", "_", "R", "E", "D", "A", "C", "T", "E", "D", "]">>
TokPHONE ==
  <<"[", "P", "H", "O", "N", "E", "_", "R", "E", "D", "A", "C", "T", "E", "D", "]">>
TokZIP ==
  <<"[", "Z", "I", "P", "_", "R", "E", "D", "A", "C", "T", "E", "D", "]">>
TokPERSON ==
  <<"[", "P", "E", "R", "S", "O", "N", "_", "R", "E", "D", "A", "C", "T", "E", "D", "]">>
TokLOC ==
  <<"[", "L", "O", "C", "_", "R", "E", "D", "A", "C", "T", "E", "D", "]">>
TokORG ==
  <<"[", "O", "R", "G", "_", "R", "E", "D", "A", "C", "T", "E", "D", "]">>

Categories == { "PERSON", "LOC", "ORG", "EMAIL", "PHONE", "SSN", "ZIP" }

----------------------------------------------------------------------------
(* The regular expressions.  NAME_RE(t, i) is the 1-based position of the  *)
(* last character of the match of the pattern that starts at position i,   *)
(* or 0 when the pattern does not match there.  Each follows the           *)
(* backtracking order of Python's re, so it is the match re finds.         *)

\* the local-part class with the brackets of the redaction tokens added
LocalCharsWithBrackets ==
  Letters \cup Digits \cup { ".", "_", "%", "+", "-", "[", "]" }

LocalChars == Letters \cup Digits \cup { ".", "_", "%", "+", "-" }

DomainChars == Letters \cup Digits \cup { ".", "-" }

PhoneSeps == Spaces \cup { ".", "-" }

\* [A-Za-z0-9._%+\-]+@[A-Za-z0-9.\-]+\.[A-Za-z]{2,}
EMAIL_RE(t, i) ==
  LET le   == RunEnd(t, i, LocalChars)
      ds   == le + 2
      de   == RunEnd(t, ds, DomainChars)
      \* the greedy domain gives back characters until "." and two letters follow
      dots == { p \in (ds + 1)..(de - 2) :
                  t[p] = "." /\ IsAlpha(t[p + 1]) /\ IsAlpha(t[p + 2]) }
  IN  IF le >= i /\ At(t, le + 1) = "@" /\ dots # {}
      THEN RunEnd(t, Max(dots) + 1, Letters)
      ELSE 0

\* \b\d{3}-\d{2}-\d{4}\b
SSN_RE(t, i) ==
  IF /\ Boundary(t, i)
     /\ AllIn(t, i, i + 2, Digits)
     /\ At(t, i + 3) = "-"
     /\ AllIn(t, i + 4, i + 5, Digits)
     /\ At(t, i + 6) = "-"
     /\ AllIn(t, i + 7, i + 10, Digits)
     /\ Boundary(t, i + 11)
  THEN i + 10
  ELSE 0

\* (?:\(?\d{3}\)?[\s.-]*)\d{3}[\s.-]?\d{4}(?!\d)
PhoneBody(t, j) ==
  LET a == IF At(t, j) = "(" THEN j + 1 ELSE j
      b == IF At(t, a + 3) = ")" THEN a + 4 ELSE a + 3
      c == RunEnd(t, b, PhoneSeps) + 1
      d == IF At(t, c + 3) \in PhoneSeps THEN c + 4 ELSE c + 3
  IN  IF /\ AllIn(t, a, a + 2, Digits)
         /\ AllIn(t, c, c + 2, Digits)
         /\ AllIn(t, d, d + 3, Digits)
         /\ ~IsDigit(At(t, d + 4))
      THEN d + 3
      ELSE 0

\* (?:\+?1[\s.-]?)?(?:\(?\d{3}\)?[\s.-]*)\d{3}[\s.-]?\d{4}(?!\d)
PHONE_RE(t, i) ==
  LET p0 == IF At(t, i) = "+" THEN i + 1 ELSE i
      p1 == IF At(t, p0 + 1) \in PhoneSeps THEN p0 + 2 ELSE p0 + 1
      withPrefix == IF At(t, p0) = "1" THEN PhoneBody(t, p1) ELSE 0
  IN  IF withPrefix # 0 THEN withPrefix ELSE PhoneBody(t, i)

\* (?<!\d)\d{9}(?!\d)
SSN_BARE_RE(t, i) ==
  IF /\ ~IsDigit(At(t, i - 1))
     /\ AllIn(t, i, i + 8, Digits)
     /\ ~IsDigit(At(t, i + 9))
  THEN i + 8
  ELSE 0

\* \b\d{5}(?:-\d{4})?\b
ZIP_RE(t, i) ==
  IF Boundary(t, i) /\ AllIn(t, i, i + 4, Digits)
  THEN IF /\ At(t, i + 5) = "-"
          /\ AllIn(t, i + 6, i + 9, Digits)
          /\ Boundary(t, i + 10)
       THEN i + 9
       ELSE IF Boundary(t, i + 5) THEN i + 4 ELSE 0
  ELSE 0

\* re.search(r'(?i)\bSSN\b', t)
SsnTokenIn(t) ==
  \E i \in 1..Len(t) :
     /\ Boundary(t, i)
     /\ i + 2 <= Len(t)
     /\ Lower(SubSeq(t, i, i + 2)) = << "s", "s", "n" >>
     /\ Boundary(t, i + 3)

\* pattern.subn(token, t) from position i on, given the match ends of the
\* pattern at every position: the leftmost match is replaced and the scan
\* resumes after it.  The result is <<new text, number of substitutions>>.
RECURSIVE SubnFrom(_, _, _, _)
SubnFrom(t, ends, token, i) ==
  LET starts == { j \in i..Len(t) : ends[j] # 0 }
  IN  IF starts = {} THEN << SubSeq(t, i, Len(t)), 0 >>
      ELSE LET j    == Min(starts)
               rest == SubnFrom(t, ends, token, ends[j] + 1)
           IN  << SubSeq(t, i, j - 1) \o token \o rest[1], rest[2] + 1 >>

EmailSubn(t) == SubnFrom(t, [ i \in 1..Len(t) |-> EMAIL_RE(t, i) ], TokEMAIL, 1)

SsnSubn(t) == SubnFrom(t, [ i \in 1..Len(t) |-> SSN_RE(t, i) ], TokSSN, 1)

PhoneSubn(t) == SubnFrom(t, [ i \in 1..Len(t) |-> PHONE_RE(t, i) ], TokPHONE, 1)

SsnBareSubn(t) ==
  SubnFrom(t, [ i \in 1..Len(t) |-> SSN_BARE_RE(t, i) ], TokSSN, 1)

ZipSubn(t) == SubnFrom(t, [ i \in 1..Len(t) |-> ZIP_RE(t, i) ], TokZIP, 1)

\* the matches pattern.subn replaces in t from position i on, in order: the
\* first and last position (1-based) of each
RECURSIVE MatchesFrom(_, _, _)
MatchesFrom(t, ends, i) ==
  LET starts == { j \in i..Len(t) : ends[j] # 0 }
  IN  IF starts = {} THEN << >>
      ELSE LET j == Min(starts)
           IN  << [ first |-> j, last |-> ends[j] ] >>
                  \o MatchesFrom(t, ends, ends[j] + 1)

EmailMatches(t) == MatchesFrom(t, [ i \in 1..Len(t) |-> EMAIL_RE(t, i) ], 1)

SsnMatches(t) == MatchesFrom(t, [ i \in 1..Len(t) |-> SSN_RE(t, i) ], 1)

PhoneMatches(t) == MatchesFrom(t, [ i \in 1..Len(t) |-> PHONE_RE(t, i) ], 1)

SsnBareMatches(t) == MatchesFrom(t, [ i \in 1..Len(t) |-> SSN_BARE_RE(t, i) ], 1)

ZipMatches(t) == MatchesFrom(t, [ i \in 1..Len(t) |-> ZIP_RE(t, i) ], 1)

NoCounts == [ c \in Categories |-> 0 ]

\* the conditional bare-SSN pass of mask_regex, on the text the PHONE pass
\* left: <<new text, number of substitutions>>
BarePass(u) == IF SsnTokenIn(u) THEN SsnBareSubn(u) ELSE << u, 0 >>

\* mask_regex(text, use_zip): [text, counts]
mask_regex(t, use_zip) ==
  LET e  == EmailSubn(t)
      f  == SsnSubn(e[1])
      p  == PhoneSubn(f[1])
      b  == BarePass(p[1])
      z  == IF use_zip THEN ZipSubn(b[1]) ELSE << b[1], 0 >>
  IN  [ text   |-> z[1],
        counts |-> [ NoCounts EXCEPT !["EMAIL"] = e[2],
                                     !["SSN"]   = f[2] + b[2],
                                     !["PHONE"] = p[2],
                                     !["ZIP"]   = z[2] ] ]

----------------------------------------------------------------------------
(* Title detection.                                                        *)

\* one match of title_pattern (re.IGNORECASE) starting at position i:
\* <<name first position, name last position>> (1-based), or << >>.
\* No title holds white space and \s+ must follow the title, so the title
\* is the whole run of characters from i up to the next white space.
TitleMatchAt(t, i) ==
  LET te == RunEndNot(t, i, Spaces)
  IN  IF \/ ~Boundary(t, i)
         \/ te < i
         \/ te >= Len(t)
         \/ Lower(SubSeq(t, i, te)) \notin COMMON_TITLES
      THEN << >>
      ELSE
        LET ns  == RunEnd(t, te + 1, Spaces) + 1
            \* [A-Z][a-z]+ under IGNORECASE: two or more letters of either case
            w1e == RunEnd(t, ns, Letters)
            w2s == RunEnd(t, w1e + 1, Spaces) + 1
            w2e == RunEnd(t, w2s, Letters)
            two == /\ w2s > w1e + 1
                   /\ w2e >= w2s + 1
                   /\ Boundary(t, w2e + 1)
        IN  IF w1e < ns + 1 THEN << >>
            ELSE IF two THEN << ns, w2e >>
            ELSE IF Boundary(t, w1e + 1) THEN << ns, w1e >>
            ELSE << >>

\* re.finditer(title_pattern, text, re.IGNORECASE) from position i on:
\* the names of the successive non-overlapping matches, as
\* [start, end) offsets (0-based)
RECURSIVE TitleNamesFrom(_, _)
TitleNamesFrom(t, i) ==
  LET starts == { j \in i..Len(t) : TitleMatchAt(t, j) # << >> }
  IN  IF starts = {} THEN << >>
      ELSE LET m == TitleMatchAt(t, Min(starts))
           IN  << [ start |-> m[1] - 1, end |-> m[2] ] >>
                  \o TitleNamesFrom(t, m[2] + 1)

----------------------------------------------------------------------------
(* Entity spans.  A span is a record                                       *)
(*   [entity_group, start, end, score, bad]                                *)
(* with 0-based offsets [start, end) and the score in hundredths.  bad is  *)
(* the set of keys among start, end, score whose value, as delivered by    *)
(* the NER collaborator, is a string that is no number, such as 'abc'      *)
(* (for score: also None or a missing key); the number held under such a   *)
(* key is a placeholder.                                                   *)

\* 'score': 0.95 of a title-based detection, in hundredths
TitleScore == 95

\* a weaker test than the one of line 100: only a name that lies inside the
\* span counts
OverlapsWithin(a, e) == e.start <= a.start /\ a.end <= e.end

\* not (name_end <= e_start or name_start >= e_end)
Overlaps(a, e) == ~(a.end <= e.start \/ a.start >= e.end)

\* whether "name_end <= e_start or name_start >= e_end" raises TypeError:
\* an int is compared with a value that is not a number
CompareRaises(a, e) ==
  \/ "start" \in e.bad
  \/ /\ ~(a.end <= e.start)
     /\ "end" \in e.bad

\* the PER spans at which the inner loop over ents stops for the name a:
\* by the break, or by an exception
Deciders(a, es) ==
  { k \in DOMAIN es :
      /\ es[k].entity_group = "PER"
      /\ (CompareRaises(a, es[k]) \/ Overlaps(a, es[k])) }

already_detected(a, es) ==
  /\ Deciders(a, es) # {}
  /\ ~CompareRaises(a, es[Min(Deciders(a, es))])

TitleSpan(a) ==
  [ entity_group |-> "PER", start |-> a.start, end |-> a.end,
    score |-> TitleScore, bad |-> {} ]

\* whether detect_titles_and_names(t, es) raises
DetectRaises(t, es) ==
  LET names == TitleNamesFrom(t, 1)
  IN  \E n \in DOMAIN names :
         /\ Deciders(names[n], es) # {}
         /\ CompareRaises(names[n], es[Min(Deciders(names[n], es))])

\* detect_titles_and_names(t, es), when it does not raise
detect_titles_and_names(t, es) ==
  LET names == TitleNamesFrom(t, 1)
      fresh == SelectSeq(names, LAMBDA a : ~already_detected(a, es))
  IN  es \o [ k \in DOMAIN fresh |-> TitleSpan(fresh[k]) ]

\* the score as delivered, without the fallback to 0.0
HeldScore(e) == e.score

\* the score as clean_and_filter_ents reads it: float(sc), 0.0 on failure
CleanScore(e) == IF "score" \in e.bad THEN 0 ELSE e.score

\* one span as clean_and_filter_ents rewrites it: the score coerced, the
\* offsets coerced where int() accepts them and left as they are otherwise
CleanEnt(e) == [ e EXCEPT !.score = CleanScore(e), !.bad = e.bad \ { "score" } ]

\* a filter with the comparison "sc >= min_score" turned round
KeepBelow(es, ms) ==
  LET cleaned == [ k \in DOMAIN es |-> CleanEnt(es[k]) ]
  IN  SelectSeq(cleaned, LAMBDA e : e.score <= ms)

\* clean_and_filter_ents(es, ms)
clean_and_filter_ents(es, ms) ==
  LET cleaned == [ k \in DOMAIN es |-> CleanEnt(es[k]) ]
  IN  SelectSeq(cleaned, LAMBDA e : e.score >= ms)

----------------------------------------------------------------------------
(* Street filtering.                                                       *)

\* the string as it is, white space at its ends included
Unstripped(t) == t

\* str.strip()
Strip(t) ==
  LET solid == { k \in DOMAIN t : ~IsSpace(t[k]) }
  IN  IF solid = {} THEN << >> ELSE SubSeq(t, Min(solid), Max(solid))

\* str.split(): the maximal runs of non-space characters, in order
RECURSIVE SplitFrom(_, _)
SplitFrom(t, i) ==
  LET solid == { k \in i..Len(t) : ~IsSpace(t[k]) }
  IN  IF solid = {} THEN << >>
      ELSE LET a == Min(solid)
               b == RunEndNot(t, a, Spaces)
           IN  << SubSeq(t, a, b) >> \o SplitFrom(t, b + 1)

Split(t) == SplitFrom(t, 1)

\* the test of lines 47-48 alone, without the last-word test of lines 51-53
WholeTextOnly(entity_text, filter) ==
  filter /\ Strip(Lower(entity_text)) \in COMMON_STREET_WORDS

\* should_filter_location(entity_text, filter_streets)
should_filter_location(entity_text, filter) ==
  LET text_lower == Strip(Lower(entity_text))
      words      == Split(text_lower)
  IN  /\ filter
      /\ \/ text_lower \in COMMON_STREET_WORDS
         \/ /\ Len(words) >= 2
            /\ words[Len(words)] \in COMMON_STREET_WORDS

----------------------------------------------------------------------------
(* Entity masking.                                                         *)

Groups == { "PER", "LOC", "ORG" }

\* groups in main: PER and LOC always, ORG with --mask-org
group_to_token(org) ==
  IF org
  THEN [ g \in { "PER", "LOC", "ORG" } |->
           IF g = "PER" THEN TokPERSON ELSE IF g = "LOC" THEN TokLOC ELSE TokORG ]
  ELSE [ g \in { "PER", "LOC" } |-> IF g = "PER" THEN TokPERSON ELSE TokLOC ]

NoGroupCounts == [ g \in Groups |-> 0 ]

\* sel = [e for e in ents if e.get("entity_group") in group_to_token]
Selected(es, g2t) == SelectSeq(es, LAMBDA e : e.entity_group \in DOMAIN g2t)

\* text[e["start"]:e["end"]] raises TypeError on an offset that is no integer
SliceRaises(e) == e.bad \cap { "start", "end" } # {}

\* the street test without the test of the group
StreetAnyGroup(t, e) == should_filter_location(Slice(t, e.start, e.end), TRUE)

\* the spans the street filter suppresses (filter_streets true)
IsStreet(t, e) ==
  /\ e.entity_group = "LOC"
  /\ should_filter_location(Slice(t, e.start, e.end), TRUE)

\* the spans in the order given, unsorted
SortedAsGiven(sel) == sel

\* the same sort without reverse=True
SortedAsc(sel) ==
  LET rank(i) == Cardinality({ j \in DOMAIN sel : sel[j].start < sel[i].start })
                 + Cardinality({ j \in DOMAIN sel :
                                   j < i /\ sel[j].start = sel[i].start })
                 + 1
  IN  [ r \in DOMAIN sel |-> sel[CHOOSE i \in DOMAIN sel : rank(i) = r] ]

\* sorted(sel, key=lambda x: x["start"], reverse=True): stable, so spans
\* with equal starts keep their order
SortedDesc(sel) ==
  LET rank(i) == Cardinality({ j \in DOMAIN sel : sel[j].start > sel[i].start })
                 + Cardinality({ j \in DOMAIN sel :
                                   j < i /\ sel[j].start = sel[i].start })
                 + 1
  IN  [ r \in DOMAIN sel |-> sel[CHOOSE i \in DOMAIN sel : rank(i) = r] ]

\* sorted raises TypeError when it compares a start that is no integer with
\* one that is
SortRaises(sel) ==
  /\ \E i \in DOMAIN sel : "start" \in sel[i].bad
  /\ \E i \in DOMAIN sel : "start" \notin sel[i].bad

\* int(e["start"]), int(e["end"]) raise on a value int() does not accept
IntRaises(e) == e.bad \cap { "start", "end" } # {}

\* text[:start] + token + text[end:]
Substitute(t, e, g2t) ==
  Slice(t, 0, e.start) \o g2t[e.entity_group] \o Slice(t, e.end, Len(t))

----------------------------------------------------------------------------
(* Normalisation.                                                          *)

\* the letters that compose with the combining acute accent U0301, each with
\* its composed character
AcutePairs ==
  { << "a", "U00E1" >>, << "c", "U0107" >>, << "e", "U00E9" >>, << "g", "U01F5" >>,
    << "i", "U00ED" >>, << "k", "U1E31" >>, << "l", "U013A" >>, << "m", "U1E3F" >>,
    << "n", "U0144" >>, << "o", "U00F3" >>, << "p", "U1E55" >>, << "r", "U0155" >>,
    << "s", "U015B" >>, << "u", "U00FA" >>, << "w", "U1E83" >>, << "y", "U00FD" >>,
    << "z", "U017A" >>, << "A", "U00C1" >>, << "C", "U0106" >>, << "E", "U00C9" >>,
    << "G", "U01F4" >>, << "I", "U00CD" >>, << "K", "U1E30" >>, << "L", "U0139" >>,
    << "M", "U1E3E" >>, << "N", "U0143" >>, << "O", "U00D3" >>, << "P", "U1E54" >>,
    << "R", "U0154" >>, << "S", "U015A" >>, << "U", "U00DA" >>, << "W", "U1E82" >>,
    << "Y", "U00DD" >>, << "Z", "U0179" >> }

AcuteBases == { x[1] : x \in AcutePairs }

Composed(c) == (CHOOSE x \in AcutePairs : x[1] = c)[2]

\* unicodedata.normalize("NFC", t) on texts whose only combining character
\* is U0301: a base letter followed by it composes
NFC(t) ==
  LET idx  == [ i \in DOMAIN t |-> i ]
      keep == SelectSeq(idx, LAMBDA i : ~(t[i] = "U0301" /\ At(t, i - 1) \in AcuteBases))
  IN  [ k \in DOMAIN keep |->
          IF t[keep[k]] \in AcuteBases /\ At(t, keep[k] + 1) = "U0301"
          THEN Composed(t[keep[k]]) ELSE t[keep[k]] ]

\* the replacements of the opening quotes alone
StraightenOpening(c) ==
  IF c = "U2018" THEN "'"
  ELSE IF c = "U201C" THEN "\""
  ELSE c

\* the four .replace calls: curly quotes to straight ones
Straighten(c) ==
  IF c \in { "U2018", "U2019" } THEN "'"
  ELSE IF c \in { "U201C", "U201D" } THEN "\""
  ELSE c

\* " ".join(words)
RECURSIVE JoinWords(_)
JoinWords(words) ==
  IF words = << >> THEN << >>
  ELSE IF Len(words) = 1 THEN words[1]
  ELSE words[1] \o << " " >> \o JoinWords(Tail(words))

\* preprocess_text(t)
preprocess_text(t) ==
  LET n == NFC(t)
      q == [ i \in DOMAIN n |-> Straighten(n[i]) ]
  IN  JoinWords(Split(q))

----------------------------------------------------------------------------
(* Inputs.                                                                 *)

\* --min-score default
DefaultMinScore == 80

\* the longest input list of spans handed to clean_and_filter_ents
MaxEnts == 2

\* the most spans the NER collaborator returns for one line
MaxNer == 1

\* the longest span list and the longest text handed to mask_ner_multi
MaxSpans == 2

MaxTextLen == 3

\* the most lines of an input file
MaxLines == 2

\* the longest string handed to preprocess_text on its own
MaxNormLen == 4

SeqsUpTo(S, n) == UNION { [ 1..k -> S ] : k \in 0..n }

\* offsets where a word of t starts, and where one ends
WordStarts(t) ==
  { i - 1 : i \in { k \in DOMAIN t : ~IsSpace(t[k]) /\ (k = 1 \/ IsSpace(t[k - 1])) } }

WordEnds(t) ==
  { k \in DOMAIN t : ~IsSpace(t[k]) /\ (k = Len(t) \/ IsSpace(t[k + 1])) }

\* ranges [a, b) that start at a word and end at a word end
WordRanges(t) ==
  { r \in WordStarts(t) \X WordEnds(t) : r[1] < r[2] }

\* the word ranges that span one word or two
ShortRanges(t) ==
  { r \in WordRanges(t) :
      Cardinality({ a \in WordStarts(t) : r[1] <= a /\ a < r[2] }) <= 2 }

\* ranges that start at a word and end at a word end or where the next
\* word starts (the range then holds the white space between them)
TouchingRanges(t) ==
  { r \in WordStarts(t) \X (WordEnds(t) \cup WordStarts(t)) : r[1] < r[2] }

\* ranges between any two word starts or word ends
CutRanges(t) ==
  LET cuts == WordStarts(t) \cup WordEnds(t)
  IN  { r \in cuts \X cuts : r[1] < r[2] }

\* ranges between any two offsets of t where a word boundary (\b) lies
BoundaryRanges(t) ==
  LET cuts == { i \in 0..Len(t) : Boundary(t, i + 1) }
  IN  { r \in cuts \X cuts : r[1] < r[2] }

AllRanges(t) == { r \in (0..Len(t)) \X (0..Len(t)) : r[1] < r[2] }

\* what the NER collaborator may return: spans over the given ranges
SpansOver(ranges, groups, scores, bads) ==
  { [ entity_group |-> g, start |-> r[1], end |-> r[2], score |-> sc, bad |-> b ] :
      r \in ranges, g \in groups, sc \in scores, b \in bads }

\* what the collaborator returns in the per-line pipeline: well-formed spans
\* with a confidence below or above the default threshold, and confident
\* spans whose start is no number
NerSpans(ranges) ==
  SpansOver(ranges, Groups, { 50, 90 }, { {} })
    \cup SpansOver(ranges, Groups, { 90 }, { { "start" } })

\* texts with and without title-prefixed names
TitleTexts ==
  { <<"D", "r", ".", " ", "A", "n", "n", " ", "M", "r", " ", "L", "e", "e">>,
    <<"M", "r", "s", " ", "A", "n", "n", " ", "L", "e", "e", " ", "x">>,
    <<"D", "r", ".", " ", "A", "n", "n", " ", "m", "e", "t">>,
    <<"D", "r", ".", " ", "A", "n", "n", " ", "L", "i", "9">>,
    <<"D", "r", ".", " ", "A", "n", "n", "9", " ", "L", "e", "e">>,
    <<"g", "e", "n", "e", "r", "a", "l", " ", "B", " ", "L", "e", "e">>,
    <<"A", "n", "n", " ", "L", "e", "e">>,
    <<"D", "r", " ", "L", "i", ",", " ", "M", "r", " ", "L", "e", "e">> }

\* texts with and without street components
StreetTexts ==
  { <<"S", "t", "a", "t", "e", " ", "S", "t">>,
    <<"S", "t", " ", "L", "o", "u", "i", "s">>,
    <<"O", "a", "k", " ", "R", "D", ".">>,
    <<"S", "t">>,
    <<"B", "r", "o", "a", "d", "w", "a", "y">> }

\* canonical texts that hold the patterns of mask_regex
TokenTexts ==
  { <<"A", "l", "@", "b", ".", "c", "o", " ", "0", "2", "1", "3", "9">>,
    <<"S", "S", "N", " ", "1", "2", "3", "4", "5", "6", "7", "8", "9">>,
    <<"1", "2", "3", "-", "4", "5", "-", "6", "7", "8", "9">>,
    <<"3", "1", "2", "5", "5", "5", "0", "1", "9", "9">>,
    <<"(", "3", "1", "2", ")", " ", "5", "5", "5", "-", "0", "1", "9", "9">> }

\* the text handed to mask_ner_multi when only offsets matter: distinct characters
BaseText == << "a", "b", "c", "d", "e", "f", "g", "h" >>

\* the characters of the strings handed to preprocess_text on its own: white
\* space, curly and straight quotes, letters with and without a composed
\* form, the combining acute accent
NormChars == { " ", "TAB", "U2018", "U201D", "'", "e", "x", "U0301" }

\* scores and thresholds for clean_and_filter_ents, in hundredths
ScoreValues == { 0, 50, 80, 100 }

Thresholds == { 0, 50, 80, 100 }

\* raw lines for the per-line pipeline
ProbeLines ==
  { <<"M", "y", " ", "S", "S", "N", " ", "i", "s", " ", "1", "2", "3", "4", "5", "6", "7", "8", "9", ".">>,
    <<"D", "r", ".", " ", "W", "a", "s", "h", "i", "n", "g", "t", "o", "n", " ", "m", "e", "t", " ", "t", "h", "e", " ", "p", "a", "t", "i", "e", "n", "t", ".">>,
    <<"x", "@", "S", "S", "N", ".", "c", "o", "m", " ", "1", "2", "3", "4", "5", "6", "7", "8", "9">>,
    <<"3", "1", "2", "5", "5", "5", "0", "1", "9", "9", "S", "S", "N", " ", "1", "2", "3", "4", "5", "6", "7", "8", "9">>,
    <<"I", "D", " ", "1", "2", "3", "4", "5", "6", "7", "8", "9">>,
    <<"S", "S", "N", " ", "1", "2", "3", "4", "5", "6", "7", "8", "9", "-", "0", "1", "2", "3">>,
    <<"L", "i", "v", "e", "s", " ", "o", "n", " ", "S", "t", "a", "t", "e", " ", "S", "t">> }

\* a line of the input file with the spans nlp returns for its canonical text
Entry(raw, ner) == [ raw |-> raw, ner |-> ner ]

Canonical(raw) == preprocess_text(Strip(raw))

\* a raw line with every span list the NER collaborator may return for it
ProbeEntriesOf(raw) ==
  { Entry(raw, ner) :
      ner \in SeqsUpTo(NerSpans(ShortRanges(Canonical(raw))), MaxNer) }

ProbeEntries == UNION { ProbeEntriesOf(raw) : raw \in ProbeLines }

\* the lines of the sample input files of main, each with what nlp returns
Span(g, a, b, sc) ==
  [ entity_group |-> g, start |-> a, end |-> b, score |-> sc, bad |-> {} ]

SampleEntries ==
  { Entry(<< >>, << >>),
    Entry(<< " ", "TAB" >>, << >>),
    Entry(<<" ", "M", "a", "i", "n", " ", " ", "S", "t">>, << Span("LOC", 0, 7, 90) >>),
    Entry(<<"a", "@", "b", ".", "c", "o", " ", "I", "B", "M">>, << Span("ORG", 7, 10, 90) >>),
    Entry(<<"M", "r", " ", "L", "e", "e">>, << Span("PER", 3, 6, 50) >>),
    Entry(<<"s", "s", "n", " ", "1", "2", "3", "-", "4", "5", "-", "6", "7", "8", "9", " ", "z", "i", "p", " ", "0", "2", "1", "3", "9">>, << >>),
    Entry(<< " ", "D", "r", ".", "TAB", "L", "e", "e", " ", " ", "U201C", "h", "i", "U201D", " " >>,
          << >>) }

----------------------------------------------------------------------------
(* State.                                                                  *)

NoFile == [ exists |-> FALSE, lines |-> << >> ]

EmptyFile == [ exists |-> TRUE, lines |-> << >> ]

NoLine == Entry(<< >>, << >>)

\* the variables of the loop body before the first line
FreshLine ==
  /\ line = NoLine
  /\ s = << >>
  /\ ents = << >>
  /\ ents_f = << >>

FreshMask ==
  /\ text = << >>
  /\ todo = << >>
  /\ counts = NoGroupCounts
  /\ filtered_counts = NoGroupCounts
  /\ masked = << >>
  /\ rx_counts = NoCounts

FreshTotals ==
  /\ totals = NoCounts
  /\ filtered_totals = [ g \in { "LOC" } |-> 0 ]
  /\ redacted_lines = << >>

\* main is about to start on an input file of the given lines
InitMain(files) ==
  /\ pc = "start"
  /\ input_exists \in BOOLEAN
  /\ fin \in (IF input_exists THEN files ELSE { << >> })
  /\ infile = fin
  /\ min_score = DefaultMinScore
  /\ mask_org \in BOOLEAN
  /\ mask_zip \in BOOLEAN
  /\ filter_streets \in BOOLEAN
  /\ nlp_loaded = FALSE
  /\ rep = NoFile
  /\ out = NoFile
  /\ FreshLine
  /\ FreshMask
  /\ FreshTotals

\* main is inside its loop, at the given statement of the body
InLoop(at) ==
  /\ pc = at
  /\ input_exists = TRUE
  /\ infile = << >>
  /\ fin = << >>
  /\ nlp_loaded = TRUE
  /\ rep = EmptyFile
  /\ out = NoFile

Init == InitMain(SeqsUpTo(SampleEntries, MaxLines))

InitLine == InitMain({ << e >> : e \in ProbeEntries })

\* spans for clean_and_filter_ents: every score, and scores that are no
\* number (the 100 held under such a score is a placeholder)
FilterSpans ==
  SpansOver({ << 0, 1 >> }, { "PER", "LOC" }, ScoreValues, { {} })
    \cup SpansOver({ << 0, 1 >> }, { "PER", "LOC" }, { 100 }, { { "score" } })

\* clean_and_filter_ents is about to be called
InitFilter ==
  /\ InLoop("filter")
  /\ min_score \in Thresholds
  /\ mask_org = FALSE /\ mask_zip = FALSE /\ filter_streets = FALSE
  /\ s = << >>
  /\ ents \in SeqsUpTo(FilterSpans, MaxEnts)
  /\ line = Entry(s, ents)
  /\ ents_f = << >>
  /\ FreshMask
  /\ FreshTotals

\* detect_titles_and_names is about to be called
InitTitles ==
  /\ InLoop("titles")
  /\ min_score = DefaultMinScore
  /\ mask_org = FALSE /\ mask_zip = FALSE /\ filter_streets = FALSE
  /\ s \in TitleTexts
  /\ ents \in SeqsUpTo(SpansOver(TouchingRanges(s), { "PER", "LOC" }, { 90 }, { {} }),
                       MaxEnts)
  /\ line = Entry(s, ents)
  /\ ents_f = << >>
  /\ FreshMask
  /\ FreshTotals

\* preprocess_text is about to be called on a string
InitNorm ==
  /\ InLoop("norm")
  /\ min_score = DefaultMinScore
  /\ mask_org = FALSE /\ mask_zip = FALSE /\ filter_streets = FALSE
  /\ s \in SeqsUpTo(NormChars, MaxNormLen)
  /\ line = Entry(s, << >>)
  /\ ents = << >>
  /\ ents_f = << >>
  /\ FreshMask
  /\ FreshTotals

\* mask_ner_multi is about to be called on one of the given texts
InitMaskOn(texts, streets) ==
  /\ InLoop("mask")
  /\ min_score = DefaultMinScore
  /\ mask_org \in BOOLEAN
  /\ mask_zip = FALSE
  /\ filter_streets \in streets
  /\ s \in texts
  /\ line = Entry(s, << >>)
  /\ FreshMask
  /\ FreshTotals

\* spans at every offset of a short text
InitMask ==
  /\ InitMaskOn({ SubSeq(BaseText, 1, n) : n \in 1..MaxTextLen }, { FALSE })
  /\ ents_f \in SeqsUpTo(SpansOver(AllRanges(s), Groups, { 90 }, { {} }), MaxSpans)
  /\ ents = ents_f

\* spans cut at the words of a text with street components
InitStreet ==
  /\ InitMaskOn(StreetTexts, BOOLEAN)
  /\ ents_f \in SeqsUpTo(SpansOver(CutRanges(s), Groups, { 90 }, { {} }), MaxSpans)
  /\ ents = ents_f

\* PER spans between the word boundaries of a text that holds a pattern
InitTokens ==
  /\ InLoop("mask")
  /\ min_score = DefaultMinScore
  /\ mask_org = FALSE
  /\ mask_zip \in BOOLEAN
  /\ filter_streets = FALSE
  /\ s \in TokenTexts
  /\ line = Entry(s, << >>)
  /\ ents_f \in SeqsUpTo(SpansOver(BoundaryRanges(s), { "PER" }, { 90 }, { {} }), MaxNer)
  /\ ents = ents_f
  /\ FreshMask
  /\ FreshTotals

----------------------------------------------------------------------------
(* main, statement by statement.                                           *)

Crash == pc' = "crashed"

\* s = preprocess_text(s), called on its own: once, and once more on the result
Preprocess ==
  /\ pc \in { "norm", "norm1" }
  /\ s' = preprocess_text(s)
  /\ pc' = IF pc = "norm" THEN "norm1" ELSE "norm2"
  /\ UNCHANGED << input_exists, infile, fin, min_score, mask_org, mask_zip,
                  filter_streets, nlp_loaded, rep, out, line, ents, ents_f, text,
                  todo, counts, filtered_counts, masked, rx_counts, totals,
                  filtered_totals, redacted_lines >>

\* main without the test of lines 197-199
CheckInputSkipped ==
  /\ pc = "start"
  /\ pc' = "load"
  /\ UNCHANGED << input_exists, infile, fin, min_score, mask_org, mask_zip, filter_streets,
                  nlp_loaded, rep, out, line, s, ents, ents_f, text, todo, counts,
                  filtered_counts, masked, rx_counts, totals, filtered_totals,
                  redacted_lines >>

\* infile.exists(), sys.exit(1)
CheckInput ==
  /\ pc = "start"
  /\ pc' = IF input_exists THEN "load" ELSE "exit"
  /\ UNCHANGED << input_exists, infile, fin, min_score, mask_org, mask_zip, filter_streets,
                  nlp_loaded, rep, out, line, s, ents, ents_f, text, todo, counts,
                  filtered_counts, masked, rx_counts, totals, filtered_totals,
                  redacted_lines >>

\* nlp = pipeline("ner", ...)
LoadModel ==
  /\ pc = "load"
  /\ nlp_loaded' = TRUE
  /\ pc' = "open"
  /\ UNCHANGED << input_exists, infile, fin, min_score, mask_org, mask_zip, filter_streets,
                  rep, out, line, s, ents, ents_f, text, todo, counts,
                  filtered_counts, masked, rx_counts, totals, filtered_totals,
                  redacted_lines >>

\* with open(infile) as fin, open(out_entities, "w") as rep
OpenFiles ==
  /\ pc = "open"
  /\ rep' = EmptyFile
  /\ pc' = "loop"
  /\ UNCHANGED << input_exists, infile, fin, min_score, mask_org, mask_zip, filter_streets,
                  nlp_loaded, out, line, s, ents, ents_f, text, todo, counts,
                  filtered_counts, masked, rx_counts, totals, filtered_totals,
                  redacted_lines >>

\* for line in fin: s = line.strip(); if not s: continue; s = preprocess_text(s)
ReadLine ==
  /\ pc = "loop"
  /\ fin # << >>
  /\ fin' = Tail(fin)
  /\ IF Strip(Head(fin).raw) = << >>
     THEN UNCHANGED << pc, line, s >>
     ELSE /\ line' = Head(fin)
          /\ s' = preprocess_text(Strip(Head(fin).raw))
          /\ pc' = "nlp"
  /\ UNCHANGED << input_exists, infile, min_score, mask_org, mask_zip, filter_streets,
                  nlp_loaded, rep, out, ents, ents_f, text, todo, counts,
                  filtered_counts, masked, rx_counts, totals, filtered_totals,
                  redacted_lines >>

\* ents = nlp(s)
CallNer ==
  /\ pc = "nlp"
  /\ ents' = line.ner
  /\ pc' = "titles"
  /\ UNCHANGED << input_exists, infile, fin, min_score, mask_org, mask_zip, filter_streets,
                  nlp_loaded, rep, out, line, s, ents_f, text, todo, counts,
                  filtered_counts, masked, rx_counts, totals, filtered_totals,
                  redacted_lines >>

\* ents = detect_titles_and_names(s, ents)
DetectTitles ==
  /\ pc = "titles"
  /\ IF DetectRaises(s, ents)
     THEN Crash /\ UNCHANGED ents
     ELSE /\ ents' = detect_titles_and_names(s, ents)
          /\ pc' = "filter"
  /\ UNCHANGED << input_exists, infile, fin, min_score, mask_org, mask_zip, filter_streets,
                  nlp_loaded, rep, out, line, s, ents_f, text, todo, counts,
                  filtered_counts, masked, rx_counts, totals, filtered_totals,
                  redacted_lines >>

\* ents_f = clean_and_filter_ents(ents, args.min_score); rep.write(...)
CleanFilter ==
  /\ pc = "filter"
  /\ ents_f' = clean_and_filter_ents(ents, min_score)
  /\ rep' = [ rep EXCEPT !.lines = Append(@, [ text |-> s, entities |-> ents_f' ]) ]
  /\ pc' = "mask"
  /\ UNCHANGED << input_exists, infile, fin, min_score, mask_org, mask_zip, filter_streets,
                  nlp_loaded, out, line, s, ents, text, todo, counts,
                  filtered_counts, masked, rx_counts, totals, filtered_totals,
                  redacted_lines >>

\* mask_ner_multi up to its loop: the selection, the street filter, the sort
MaskSelect ==
  /\ pc = "mask"
  /\ LET g2t  == group_to_token(mask_org)
         sel  == Selected(ents_f, g2t)
         kept == IF filter_streets
                 THEN SelectSeq(sel, LAMBDA e : ~IsStreet(s, e))
                 ELSE sel
     IN  IF \/ filter_streets /\ \E k \in DOMAIN sel : SliceRaises(sel[k])
            \/ SortRaises(kept)
         THEN Crash /\ UNCHANGED << text, todo, counts, filtered_counts >>
         ELSE /\ text' = s
              /\ todo' = SortedDesc(kept)
              /\ counts' = NoGroupCounts
              /\ filtered_counts' =
                   [ NoGroupCounts EXCEPT !["LOC"] = Len(sel) - Len(kept) ]
              /\ pc' = "subst"
  /\ UNCHANGED << input_exists, infile, fin, min_score, mask_org, mask_zip, filter_streets,
                  nlp_loaded, rep, out, line, s, ents, ents_f, masked, rx_counts,
                  totals, filtered_totals, redacted_lines >>

\* one iteration of the loop of mask_ner_multi
MaskStep ==
  /\ pc = "subst"
  /\ todo # << >>
  /\ LET e == Head(todo)
     IN  IF IntRaises(e)
         THEN Crash /\ UNCHANGED << text, todo, counts >>
         ELSE /\ text' = Substitute(text, e, group_to_token(mask_org))
              /\ counts' = [ counts EXCEPT ![e.entity_group] = @ + 1 ]
              /\ todo' = Tail(todo)
              /\ UNCHANGED pc
  /\ UNCHANGED << input_exists, infile, fin, min_score, mask_org, mask_zip, filter_streets,
                  nlp_loaded, rep, out, line, s, ents, ents_f, filtered_counts,
                  masked, rx_counts, totals, filtered_totals, redacted_lines >>

\* mask_ner_multi returns; main adds its counts to the totals
MaskReturn ==
  /\ pc = "subst"
  /\ todo = << >>
  /\ masked' = text
  /\ totals' = [ totals EXCEPT !["PERSON"] = @ + counts["PER"],
                               !["LOC"]    = @ + counts["LOC"],
                               !["ORG"]    = @ + counts["ORG"] ]
  /\ filtered_totals' = [ filtered_totals EXCEPT !["LOC"] = @ + filtered_counts["LOC"] ]
  /\ pc' = "regex"
  /\ UNCHANGED << input_exists, infile, fin, min_score, mask_org, mask_zip, filter_streets,
                  nlp_loaded, rep, out, line, s, ents, ents_f, text, todo, counts,
                  filtered_counts, rx_counts, redacted_lines >>

\* the step of lines 240-243 with totals.update replacing the entries of
\* the keys of rx_counts, as dict.update does, instead of adding to them
MaskRegexReplacing ==
  /\ pc = "regex"
  /\ LET r == mask_regex(masked, mask_zip)
     IN  /\ masked' = r.text
         /\ rx_counts' = r.counts
         /\ totals' = [ c \in Categories |->
                          IF c \in { "EMAIL", "SSN", "PHONE" } \/ (c = "ZIP" /\ mask_zip)
                          THEN r.counts[c] ELSE totals[c] ]
         /\ redacted_lines' = Append(redacted_lines, r.text)
  /\ pc' = "loop"
  /\ UNCHANGED << input_exists, infile, fin, min_score, mask_org, mask_zip, filter_streets,
                  nlp_loaded, rep, out, line, s, ents, ents_f, text, todo, counts,
                  filtered_counts, filtered_totals >>

\* masked, rx_counts = mask_regex(masked, ...); totals.update(rx_counts);
\* redacted_lines.append(masked)
MaskRegex ==
  /\ pc = "regex"
  /\ LET r == mask_regex(masked, mask_zip)
     IN  /\ masked' = r.text
         /\ rx_counts' = r.counts
         /\ totals' = [ c \in Categories |-> totals[c] + r.counts[c] ]
         /\ redacted_lines' = Append(redacted_lines, r.text)
  /\ pc' = "loop"
  /\ UNCHANGED << input_exists, infile, fin, min_score, mask_org, mask_zip, filter_streets,
                  nlp_loaded, rep, out, line, s, ents, ents_f, text, todo, counts,
                  filtered_counts, filtered_totals >>

\* the input is exhausted: fout.write("\n".join(redacted_lines))
WriteOutput ==
  /\ pc = "loop"
  /\ fin = << >>
  /\ out' = [ exists |-> TRUE, lines |-> redacted_lines ]
  /\ pc' = "done"
  /\ UNCHANGED << input_exists, infile, fin, min_score, mask_org, mask_zip, filter_streets,
                  nlp_loaded, rep, line, s, ents, ents_f, text, todo, counts,
                  filtered_counts, masked, rx_counts, totals, filtered_totals,
                  redacted_lines >>

Next ==
  \/ CheckInput
  \/ LoadModel
  \/ OpenFiles
  \/ ReadLine
  \/ CallNer
  \/ DetectTitles
  \/ CleanFilter
  \/ MaskSelect
  \/ MaskStep
  \/ MaskReturn
  \/ MaskRegex
  \/ WriteOutput

\* main on sample input files
Spec == Init /\ [][Next]_vars

\* main on one-line input files, over every span list of the collaborator
SpecLine == InitLine /\ [][Next]_vars

\* preprocess_text alone, applied twice
SpecNorm == InitNorm /\ [][Preprocess]_vars

\* clean_and_filter_ents alone
SpecFilter == InitFilter /\ [][CleanFilter]_vars

\* detect_titles_and_names alone
SpecTitles == InitTitles /\ [][DetectTitles]_vars

NextMask == MaskSelect \/ MaskStep \/ MaskReturn

\* mask_ner_multi alone, on spans at every offset of a short text
SpecMask == InitMask /\ [][NextMask]_vars

\* mask_ner_multi alone, on texts with street components
SpecStreet == InitStreet /\ [][NextMask]_vars

NextTokens == MaskSelect \/ MaskStep \/ MaskReturn \/ MaskRegex

\* mask_ner_multi followed by mask_regex, on texts that hold a pattern
SpecTokens == InitTokens /\ [][NextTokens]_vars

----------------------------------------------------------------------------
(* Properties of mask_ner_multi.                                           *)

\* the spans mask_ner_multi selects from the filtered list, in the order given
SelSpans == Selected(ents_f, group_to_token(mask_org))

\* two ranges [start, end) have an offset in common
Meet(a, e) ==
  \E p \in 0..Max({ a.end, e.end }) :
     /\ a.start <= p /\ p < a.end
     /\ e.start <= p /\ p < e.end

PairwiseApart(spans) ==
  \A i, j \in DOMAIN spans : i < j => ~Meet(spans[i], spans[j])

RECURSIVE Flatten(_)
Flatten(pieces) ==
  IF pieces = << >> THEN << >> ELSE Head(pieces) \o Flatten(Tail(pieces))

RECURSIVE SumSeq(_)
SumSeq(q) == IF q = << >> THEN 0 ELSE Head(q) + SumSeq(Tail(q))

\* t read from left to right: at an offset where a span starts stands the
\* token of its group, inside a span nothing, elsewhere the character of t
LeftToRight(t, spans, g2t) ==
  Flatten([ p \in 1..Len(t) |->
              IF \E k \in DOMAIN spans : spans[k].start = p - 1
              THEN g2t[spans[CHOOSE k \in DOMAIN spans :
                               spans[k].start = p - 1].entity_group]
              ELSE IF \E k \in DOMAIN spans :
                         spans[k].start < p - 1 /\ p - 1 < spans[k].end
              THEN << >>
              ELSE << t[p] >> ])

\* C1: with street filtering off and selected spans that lie in the text and
\* are pairwise non-overlapping, mask_ner_multi returns the text in which
\* each span's range is replaced by the token of its group and every other
\* character stands unchanged in its original order; its length is
\* len(text) - sum(end - start) + sum(len(token)), and each span is counted.
C1_NonOverlapMasking ==
  (pc = "regex" /\ ~filter_streets /\ PairwiseApart(SelSpans)) =>
    LET g2t == group_to_token(mask_org)
    IN  /\ masked = LeftToRight(s, SelSpans, g2t)
        /\ Len(masked) =
             Len(s)
             - SumSeq([ k \in DOMAIN SelSpans |-> SelSpans[k].end - SelSpans[k].start ])
             + SumSeq([ k \in DOMAIN SelSpans |-> Len(g2t[SelSpans[k].entity_group]) ])
        /\ \A g \in Groups :
             counts[g] = Cardinality({ k \in DOMAIN SelSpans :
                                         SelSpans[k].entity_group = g })

\* two spans of different groups, given in ascending order with a character
\* between them, have been masked
C1_Witness ==
  /\ pc = "regex"
  /\ ~filter_streets
  /\ Len(SelSpans) = 2
  /\ SelSpans[1].end < SelSpans[2].start
  /\ SelSpans[1].entity_group # SelSpans[2].entity_group
  /\ masked = TokPERSON \o << "b" >> \o TokLOC

\* the last word of the lower-cased text is in the street vocabulary
StreetSurface(t) ==
  LET low   == Lower(t)
      solid == { k \in DOMAIN low : ~IsSpace(low[k]) }
  IN  /\ solid # {}
      /\ LET b == Max(solid)
             a == Min({ j \in 1..b : \A k \in j..b : ~IsSpace(low[k]) })
         IN  SubSeq(low, a, b) \in COMMON_STREET_WORDS

\* C7: with filter_streets true, every LOC span whose text is a street word
\* or ends in one is left unmasked and counted as filtered; with
\* filter_streets false it is masked and the filtered count is zero; spans of
\* other groups are never suppressed.
C7_StreetSuppression ==
  pc = "regex" =>
    LET g2t        == group_to_token(mask_org)
        ofGroup(g) == { k \in DOMAIN ents_f : ents_f[k].entity_group = g }
        street     == { k \in ofGroup("LOC") :
                          StreetSurface(Slice(s, ents_f[k].start, ents_f[k].end)) }
        masking    == SelectSeq(SelSpans,
                        LAMBDA e : ~( /\ filter_streets
                                      /\ e.entity_group = "LOC"
                                      /\ StreetSurface(Slice(s, e.start, e.end)) ))
    IN  /\ filtered_counts["LOC"] = IF filter_streets THEN Cardinality(street) ELSE 0
        /\ filtered_counts["PER"] = 0
        /\ filtered_counts["ORG"] = 0
        /\ counts["LOC"] = Cardinality(ofGroup("LOC")) - filtered_counts["LOC"]
        /\ counts["PER"] = Cardinality(ofGroup("PER"))
        /\ counts["ORG"] = IF mask_org THEN Cardinality(ofGroup("ORG")) ELSE 0
        /\ PairwiseApart(masking) => masked = LeftToRight(s, masking, g2t)

\* a two-word LOC span that ends in a street word has been suppressed, and a
\* PER span over a street word has been masked
C7_Witness ==
  /\ pc = "regex"
  /\ filter_streets
  /\ Len(ents_f) = 2
  /\ \E k \in DOMAIN ents_f :
        /\ ents_f[k].entity_group = "LOC"
        /\ Len(Split(Slice(s, ents_f[k].start, ents_f[k].end))) = 2
        /\ StreetSurface(Slice(s, ents_f[k].start, ents_f[k].end))
  /\ \E k \in DOMAIN ents_f :
        /\ ents_f[k].entity_group = "PER"
        /\ StreetSurface(Slice(s, ents_f[k].start, ents_f[k].end))
  /\ filtered_counts["LOC"] = 1
  /\ counts["PER"] = 1

----------------------------------------------------------------------------
(* Properties of the per-line pipeline.                                    *)

\* the line read last has gone through entity masking and mask_regex
LineDone == pc = "loop" /\ redacted_lines # << >>

\* the first positions of the runs of exactly nine digits in t that are not
\* adjacent to other digits
BareRuns(t) == { i \in 1..Len(t) : SSN_BARE_RE(t, i) # 0 }

\* C2: for a line that contains the token "SSN" (case-insensitive) and a run
\* of exactly nine digits not adjacent to other digits, the per-line pipeline
\* replaces every such run with [SSN_REDACTED] and counts it under SSN,
\* whatever entity spans were masked first.
C2_TokenLineBareSsnMasked ==
  (LineDone /\ SsnTokenIn(s) /\ BareRuns(s) # {}) =>
    /\ rx_counts["SSN"] >= Cardinality(BareRuns(s))
    /\ BareRuns(masked) = {}

\* C3: for a line whose canonical text does not contain the token "SSN", no
\* bare nine-digit run is replaced by [SSN_REDACTED]: the SSN count of the
\* line is that of the formatted-SSN pass alone.
C3_NoTokenNoBareSsn ==
  (LineDone /\ ~SsnTokenIn(s)) =>
    rx_counts["SSN"] = SsnSubn(EmailSubn(text)[1])[2]

Example3 ==
  << "D", "r", ".", " ", "W", "a", "s", "h", "i", "n", "g", "t",
     "o", "n", " ", "m", "e", "t", " ", "t", "h", "e", " ", "p",
     "a", "t", "i", "e", "n", "t", "." >>

Example3Masked ==
  << "D", "r", ".", " ", "[", "P", "E", "R", "S", "O", "N", "_",
     "R", "E", "D", "A", "C", "T", "E", "D", "]", " ", "m", "e",
     "t", " ", "t", "h", "e", " ", "p", "a", "t", "i", "e", "n",
     "t", "." >>

\* an upper-case letter followed by one or more lower-case letters
Capitalized(w) ==
  /\ Len(w) >= 2
  /\ IsUpper(w[1])
  /\ \A k \in 2..Len(w) : IsAlpha(w[k]) /\ ~IsUpper(w[k])

\* C4: every span the TITLE-NAME detector adds is a PER span of confidence
\* 0.95 that covers exactly one or two capitalized words; and
\* "Dr. Washington met the patient." without NER spans, at min_score 0.80,
\* is masked to "Dr. [PERSON_REDACTED] met the patient.".
C4_TitleNameSpan ==
  /\ pc = "filter" =>
       \A k \in (Len(line.ner) + 1)..Len(ents) :
          /\ ents[k].entity_group = "PER"
          /\ ents[k].score = TitleScore
          /\ LET words == Split(Slice(s, ents[k].start, ents[k].end))
             IN  /\ Len(words) \in { 1, 2 }
                 /\ \A w \in DOMAIN words : Capitalized(words[w])
  /\ (LineDone /\ s = Example3 /\ line.ner = << >> /\ min_score = DefaultMinScore) =>
       masked = Example3Masked

\* C5: the confidence filter runs before the merger: the name after a title
\* is in the filtered entity list as a PER span of confidence 0.95 unless it
\* intersects an NER PER span whose confidence is >= the threshold.
C5_FilterBeforeMerger ==
  pc = "mask" =>
    \A n \in DOMAIN TitleNamesFrom(s, 1) :
       LET a == TitleNamesFrom(s, 1)[n]
       IN  (\A k \in DOMAIN line.ner :
               ~( /\ line.ner[k].entity_group = "PER"
                  /\ line.ner[k].bad = {}
                  /\ line.ner[k].score >= min_score
                  /\ Meet(a, line.ner[k]) ))
           => \E k \in DOMAIN ents_f :
                 /\ ents_f[k].entity_group = "PER"
                 /\ ents_f[k].start = a.start
                 /\ ents_f[k].end = a.end
                 /\ ents_f[k].score = TitleScore

\* C8: a span whose start or end cannot be coerced to an integer never makes
\* the processing of its line fail.
C8_MalformedOffsetsTolerated ==
  (\E k \in DOMAIN line.ner : line.ner[k].bad \cap { "start", "end" } # {}) =>
    pc # "crashed"

----------------------------------------------------------------------------
(* Properties of detect_titles_and_names.                                  *)

\* C6: when the NER PER spans are pairwise non-overlapping, the list returned
\* by detect_titles_and_names holds the input spans in their order, followed
\* by one PER span of confidence 0.95 for each title name that shares no
\* offset with an NER PER span (touching ranges share none), and no two PER
\* spans of the list overlap.
C6_NoOverlappingPersons ==
  (pc = "filter"
     /\ PairwiseApart(SelectSeq(line.ner, LAMBDA e : e.entity_group = "PER"))) =>
    LET n     == Len(line.ner)
        names == TitleNamesFrom(s, 1)
        free  == SelectSeq(names,
                   LAMBDA a : \A k \in 1..n :
                                line.ner[k].entity_group = "PER" => ~Meet(a, line.ner[k]))
    IN  /\ Len(ents) = n + Len(free)
        /\ SubSeq(ents, 1, n) = line.ner
        /\ \A k \in DOMAIN free :
             ents[n + k] = [ entity_group |-> "PER", start |-> free[k].start,
                             end |-> free[k].end, score |-> TitleScore, bad |-> {} ]
        /\ \A i, j \in DOMAIN ents :
             (i < j /\ ents[i].entity_group = "PER" /\ ents[j].entity_group = "PER")
               => ~Meet(ents[i], ents[j])

\* of two title names one touches an NER PER span and has been appended, the
\* other lies in an NER PER span and has been discarded
C6_Witness ==
  /\ pc = "filter"
  /\ Len(line.ner) = 2
  /\ line.ner[1].entity_group = "PER"
  /\ line.ner[2].entity_group = "PER"
  /\ ~Meet(line.ner[1], line.ner[2])
  /\ Len(TitleNamesFrom(s, 1)) = 2
  /\ Len(ents) = 3
  /\ \E k \in 1..2 : line.ner[k].end = ents[3].start
  /\ \E k \in 1..2 : Meet(TitleNamesFrom(s, 1)[2], line.ner[k])

----------------------------------------------------------------------------
(* Properties of clean_and_filter_ents.                                    *)

\* the confidence of a span, 0.0 when it is missing or no number
Confidence(e) == IF "score" \in e.bad THEN 0 ELSE e.score

\* the r-th smallest number of a finite set
Nth(S, r) == CHOOSE x \in S : Cardinality({ y \in S : y <= x }) = r

\* C9: clean_and_filter_ents returns, in input order, exactly the spans whose
\* confidence is >= the threshold, a missing or unparseable confidence
\* counting as 0.0: above threshold 0 only spans with a parseable confidence
\* are retained, at threshold 0 every span is.
C9_FilterContract ==
  pc = "mask" =>
    LET kept == { k \in DOMAIN ents : Confidence(ents[k]) >= min_score }
    IN  /\ Len(ents_f) = Cardinality(kept)
        /\ \A r \in DOMAIN ents_f :
             LET e == ents[Nth(kept, r)]
             IN  ents_f[r] = [ entity_group |-> e.entity_group, start |-> e.start,
                               end |-> e.end, score |-> Confidence(e),
                               bad |-> e.bad \ { "score" } ]
        /\ min_score > 0 =>
             Len(ents_f) = Cardinality({ k \in DOMAIN ents :
                                           /\ "score" \notin ents[k].bad
                                           /\ ents[k].score >= min_score })
        /\ min_score = 0 => Len(ents_f) = Len(ents)

\* a span without a parseable confidence has been dropped at a threshold
\* above 0 and the span after it has been retained
C9_Witness ==
  /\ pc = "mask"
  /\ min_score = 50
  /\ Len(ents) = 2
  /\ "score" \in ents[1].bad
  /\ "score" \notin ents[2].bad
  /\ ents[2].score = 50
  /\ Len(ents_f) = 1
  /\ ents_f[1].entity_group = ents[2].entity_group

\* a is b with some elements left out
IsSubList(a, b) ==
  \E f \in [ DOMAIN a -> DOMAIN b ] :
     /\ \A i, j \in DOMAIN a : i < j => f[i] < f[j]
     /\ \A i \in DOMAIN a : b[f[i]] = a[i]

\* C10: for thresholds t1 <= t2 the spans clean_and_filter_ents retains at t2
\* are a sub-list of those it retains at t1, so raising the threshold never
\* increases the number of retained spans.
C10_ThresholdMonotone ==
  pc = "mask" =>
    \A t \in Thresholds :
       LET other == clean_and_filter_ents(ents, t)
       IN  /\ t <= min_score => IsSubList(ents_f, other) /\ Len(ents_f) <= Len(other)
           /\ min_score <= t => IsSubList(other, ents_f) /\ Len(other) <= Len(ents_f)

\* a list of which the default threshold retains one span and a lower
\* threshold two
C10_Witness ==
  /\ pc = "mask"
  /\ min_score = 80
  /\ Len(ents) = 2
  /\ Len(ents_f) = 1
  /\ Len(clean_and_filter_ents(ents, 50)) = 2

----------------------------------------------------------------------------
(* Properties of preprocess_text.                                          *)

\* t holds no curly quote, no white space at either end and no two white
\* space characters in a row
Tidy(t) ==
  /\ \A k \in DOMAIN t : t[k] \notin { "U2018", "U2019", "U201C", "U201D" }
  /\ t # << >> => ~IsSpace(t[1]) /\ ~IsSpace(t[Len(t)])
  /\ \A k \in 1..(Len(t) - 1) : ~(IsSpace(t[k]) /\ IsSpace(t[k + 1]))

\* C11: preprocess_text is idempotent: applied to its own output it returns
\* that output unchanged; and its output holds no curly quote, no leading or
\* trailing white space and no run of two or more white space characters.
C11_PreprocessIdempotent ==
  /\ [](pc \in { "norm1", "norm2" } => Tidy(s))
  /\ [][(pc = "norm1" /\ pc' = "norm2") => s' = s]_vars

\* preprocess_text has been applied twice to a string with a closing curly
\* quote between words and a run of white space
C11_Witness ==
  /\ pc = "norm2"
  /\ \E k \in DOMAIN line.raw : line.raw[k] = "U201D"
  /\ \E k \in 1..(Len(line.raw) - 1) : IsSpace(line.raw[k]) /\ IsSpace(line.raw[k + 1])
  /\ Len(s) = 3
  /\ s[2] = " "
  /\ \E k \in DOMAIN s : s[k] = "\""

----------------------------------------------------------------------------
(* Properties of mask_regex.                                               *)

\* C12: no PHONE substitution of mask_regex lies inside a longer run of
\* digits: the match is not followed by a digit, and when it starts with a
\* digit it is not preceded by one.
C12_PhoneNotInsideDigitRun ==
  LineDone =>
    LET u  == SsnSubn(EmailSubn(text)[1])[1]
        ms == PhoneMatches(u)
    IN  \A k \in DOMAIN ms :
           /\ ~IsDigit(At(u, ms[k].last + 1))
           /\ ~(IsDigit(At(u, ms[k].first)) /\ IsDigit(At(u, ms[k].first - 1)))

----------------------------------------------------------------------------
(* Properties of main.                                                     *)

\* a line of the input file that is empty or holds white space only
IsBlank(raw) == \A k \in DOMAIN raw : IsSpace(raw[k])

\* the non-blank lines of the input file, and those among the lines read
NonBlank(lines) == SelectSeq(lines, LAMBDA e : ~IsBlank(e.raw))

LinesRead == SubSeq(infile, 1, Len(infile) - Len(fin))

\* what one line of the input file comes to under the arguments of the run:
\* its canonical text, its filtered entity list, the spans masked, the text
\* after entity masking, and the result of mask_regex on that text
LineText(e) == preprocess_text(e.raw)

LineEntities(e) ==
  clean_and_filter_ents(detect_titles_and_names(LineText(e), e.ner), min_score)

LineSelected(e) == Selected(LineEntities(e), group_to_token(mask_org))

LineKept(e) ==
  IF filter_streets
  THEN SelectSeq(LineSelected(e), LAMBDA x : ~IsStreet(LineText(e), x))
  ELSE LineSelected(e)

RECURSIVE SubstAll(_, _, _)
SubstAll(t, spans, g2t) ==
  IF spans = << >> THEN t
  ELSE SubstAll(Substitute(t, Head(spans), g2t), Tail(spans), g2t)

LineEntityMasked(e) ==
  SubstAll(LineText(e), SortedDesc(LineKept(e)), group_to_token(mask_org))

LineRegex(e) == mask_regex(LineEntityMasked(e), mask_zip)

\* C13: the report records and the redacted lines correspond one-to-one, in
\* input order, to the non-blank lines of the input file read so far (all of
\* them when main completes): the i-th record and the i-th redacted line
\* derive from the i-th non-blank line, and a blank line adds neither.
C13_OneRecordPerNonBlankLine ==
  pc \in { "loop", "done" } =>
    LET nb == NonBlank(LinesRead)
    IN  /\ Len(rep.lines) = Len(nb)
        /\ Len(redacted_lines) = Len(nb)
        /\ \A i \in DOMAIN nb :
             /\ rep.lines[i] = [ text |-> LineText(nb[i]), entities |-> LineEntities(nb[i]) ]
             /\ redacted_lines[i] = LineRegex(nb[i]).text
        /\ pc = "done" =>
             /\ fin = << >>
             /\ out = [ exists |-> TRUE, lines |-> redacted_lines ]
             /\ Len(out.lines) = Len(NonBlank(infile))

\* main has completed on a file of a line of white space followed by a line
\* with text
C13_Witness ==
  /\ pc = "done"
  /\ Len(infile) = 2
  /\ infile[1].raw # << >>
  /\ IsBlank(infile[1].raw)
  /\ ~IsBlank(infile[2].raw)
  /\ Len(out.lines) = 1
  /\ Len(rep.lines) = 1
  /\ rep.lines[1].text = LineText(infile[2])

\* the masks one line adds under each category (PER counted as PERSON), and
\* the LOC spans the street filter suppresses on it
LineTally(e) ==
  LET t == LineText(e)
      sel == Selected(clean_and_filter_ents(detect_titles_and_names(t, e.ner),
                                            min_score),
                      group_to_token(mask_org))
      kept == IF filter_streets
              THEN SelectSeq(sel, LAMBDA x : ~IsStreet(t, x))
              ELSE sel
      rx == mask_regex(SubstAll(t, SortedDesc(kept), group_to_token(mask_org)),
                       mask_zip).counts
      group(c) == IF c = "PERSON" THEN "PER" ELSE c
  IN  [ counts |-> [ c \in Categories |->
                       rx[c] + Cardinality({ k \in DOMAIN kept :
                                               kept[k].entity_group = group(c) }) ],
        filtered |-> Len(sel) - Len(kept) ]

\* the tallies of a list of lines, added up
RECURSIVE SumTally(_)
SumTally(lines) ==
  IF lines = << >>
  THEN [ counts |-> NoCounts, filtered |-> 0 ]
  ELSE LET t == LineTally(Head(lines))
           r == SumTally(Tail(lines))
       IN  [ counts   |-> [ c \in Categories |-> t.counts[c] + r.counts[c] ],
             filtered |-> t.filtered + r.filtered ]

\* C14: the run-wide counters only grow, and between lines each total is the
\* sum, over the non-blank lines processed so far, of the line's masks of
\* that category, and the filtered total the sum of the lines' filtered
\* counts.
C14_CountersAccumulate ==
  /\ [](pc \in { "loop", "done" } =>
          LET sum == SumTally(NonBlank(LinesRead))
          IN  /\ totals = sum.counts
              /\ filtered_totals["LOC"] = sum.filtered)
  /\ [][/\ \A c \in Categories : totals'[c] >= totals[c]
        /\ filtered_totals'["LOC"] >= filtered_totals["LOC"]]_vars

\* two lines have been processed that each add to the same totals
C14_Witness ==
  /\ pc = "done"
  /\ Len(redacted_lines) = 2
  /\ rx_counts["SSN"] = 1
  /\ totals["SSN"] = 2
  /\ mask_zip
  /\ totals["ZIP"] = 2

\* C15: when the input file does not exist, main stops at sys.exit(1): it
\* never loads the NER model and neither output file is created or written.
C15_MissingInputNoOutput ==
  ~input_exists =>
    /\ pc \in { "start", "exit" }
    /\ ~nlp_loaded
    /\ rep = NoFile
    /\ out = NoFile
    /\ redacted_lines = << >>
    /\ pc = "start" => ENABLED CheckInput

\* main has exited on a missing input file
C15_Witness ==
  /\ ~input_exists
  /\ pc = "exit"
  /\ ~nlp_loaded
  /\ rep = NoFile
  /\ out = NoFile

\* C16: in the loop of mask_ner_multi over pairwise non-overlapping selected
\* spans, the spans still to be processed start no later than every span
\* already replaced, and the range of each of them holds in the working text
\* exactly the characters it holds in the canonical text.
C16_RemainingRangesUntouched ==
  (pc = "subst" /\ PairwiseApart(SelSpans)) =>
    /\ \A k \in DOMAIN todo :
         /\ Slice(text, todo[k].start, todo[k].end) = Slice(s, todo[k].start, todo[k].end)
         /\ Slice(text, 0, todo[k].end) = Slice(s, 0, todo[k].end)
    /\ \A j, k \in DOMAIN todo : j < k => todo[j].start >= todo[k].start

\* the later of two spans given in ascending order has been replaced and the
\* earlier one is still to be processed
C16_Witness ==
  /\ pc = "subst"
  /\ Len(SelSpans) = 2
  /\ PairwiseApart(SelSpans)
  /\ SelSpans[1].start < SelSpans[2].start
  /\ todo = << SelSpans[1] >>
  /\ text # s
  /\ Len(text) > Len(s)

AllTokens == { TokEMAIL, TokSSN, TokPHONE, TokZIP, TokPERSON, TokLOC, TokORG }

\* the token tok stands in t from position i on (1-based)
TokenAt(t, i, tok) ==
  /\ i + Len(tok) - 1 <= Len(t)
  /\ SubSeq(t, i, i + Len(tok) - 1) = tok

\* the positions of t that belong to a redaction token
TokenSpots(t) ==
  UNION { { p \in i..(i + Len(tok) - 1) : TokenAt(t, i, tok) } :
            i \in 1..Len(t), tok \in AllTokens }

\* the redaction tokens of t, from left to right
TokensOf(t) ==
  LET at == SelectSeq([ i \in 1..Len(t) |-> i ],
                      LAMBDA i : \E tok \in AllTokens : TokenAt(t, i, tok))
  IN  [ k \in DOMAIN at |-> CHOOSE tok \in AllTokens : TokenAt(t, at[k], tok) ]

TokenCount(t, tok) == Cardinality({ i \in 1..Len(t) : TokenAt(t, i, tok) })

\* no match of ms includes a position of a token of t
Clear(t, ms) ==
  LET spots == TokenSpots(t)
  IN  \A k \in DOMAIN ms : \A p \in (ms[k].first)..(ms[k].last) : p \notin spots

\* C17: no match of a pass of mask_regex includes a character of a redaction
\* token of the text the pass works on, and the tokens of the entity-masked
\* text, and those of each pass, stand in the same order in the final line,
\* which holds besides them only the tokens mask_regex counted.
C17_TokensSurvivePatterns ==
  (pc = "loop" /\ redacted_lines # << >>) =>
    LET u0 == text
        u1 == EmailSubn(u0)[1]
        u2 == SsnSubn(u1)[1]
        u3 == PhoneSubn(u2)[1]
        u4 == BarePass(u3)[1]
    IN  /\ Clear(u0, EmailMatches(u0))
        /\ Clear(u1, SsnMatches(u1))
        /\ Clear(u2, PhoneMatches(u2))
        /\ SsnTokenIn(u3) => Clear(u3, SsnBareMatches(u3))
        /\ mask_zip => Clear(u4, ZipMatches(u4))
        /\ IsSubList(TokensOf(u0), TokensOf(u1))
        /\ IsSubList(TokensOf(u1), TokensOf(u2))
        /\ IsSubList(TokensOf(u2), TokensOf(u3))
        /\ IsSubList(TokensOf(u3), TokensOf(u4))
        /\ IsSubList(TokensOf(u4), TokensOf(masked))
        /\ masked = redacted_lines[Len(redacted_lines)]
        /\ \A tok \in { TokPERSON, TokLOC, TokORG } :
             TokenCount(masked, tok) = TokenCount(text, tok)
        /\ TokenCount(masked, TokEMAIL) = TokenCount(text, TokEMAIL) + rx_counts["EMAIL"]
        /\ TokenCount(masked, TokSSN) = TokenCount(text, TokSSN) + rx_counts["SSN"]
        /\ TokenCount(masked, TokPHONE) = TokenCount(text, TokPHONE) + rx_counts["PHONE"]
        /\ TokenCount(masked, TokZIP) = TokenCount(text, TokZIP) + rx_counts["ZIP"]

\* a person token stands right before the "@" of what was an e-mail address,
\* and the ZIP pass has replaced a code after it
C17_Witness ==
  /\ pc = "loop"
  /\ redacted_lines # << >>
  /\ TokenAt(text, 1, TokPERSON)
  /\ At(text, Len(TokPERSON) + 1) = "@"
  /\ rx_counts["EMAIL"] = 0
  /\ rx_counts["ZIP"] = 1
  /\ TokensOf(masked) = << TokPERSON, TokZIP >>

\* C18: when mask_ner_multi returns, for every group of group_to_token the
\* masked and the filtered spans together are the input spans of the group;
\* a filtered count is non-zero only for LOC under filter_streets; and the
\* spans of other groups are not counted and leave the text as it is without
\* them.
C18_EverySpanAccounted ==
  pc = "regex" =>
    LET g2t   == group_to_token(mask_org)
        of(g) == Cardinality({ k \in DOMAIN ents_f : ents_f[k].entity_group = g })
        kept  == IF filter_streets
                 THEN SelectSeq(SelSpans, LAMBDA e : ~IsStreet(s, e))
                 ELSE SelSpans
    IN  /\ \A g \in DOMAIN g2t : counts[g] + filtered_counts[g] = of(g)
        /\ \A g \in Groups : filtered_counts[g] # 0 => g = "LOC" /\ filter_streets
        /\ \A g \in Groups \ DOMAIN g2t : counts[g] = 0 /\ filtered_counts[g] = 0
        /\ masked = SubstAll(s, SortedDesc(kept), g2t)
        /\ SelSpans = << >> => masked = s

\* a call with a filtered street, and with a span of a group that is not in
\* group_to_token, has returned the text unchanged
C18_Witness ==
  /\ pc = "regex"
  /\ filter_streets
  /\ ~mask_org
  /\ Len(ents_f) = 2
  /\ ents_f[1].entity_group = "ORG"
  /\ ents_f[2].entity_group = "LOC"
  /\ filtered_counts["LOC"] = 1
  /\ counts = NoGroupCounts
  /\ masked = s

====
